---- MODULE Spec2Model ----
(***************************************************************************)
(* State-machine model of crates/core/src/pipeline.rs of the LAN audio     *)
(* bridge: the monitor-source discovery scan, the sender/receiver pipeline *)
(* builders, the start/stop lifecycle with its bus listener, and the TX    *)
(* throughput probe.  Strings are sequences of one-character strings so    *)
(* that lower-casing, substring search and integer parsing are computed.   *)
(***************************************************************************)
EXTENDS Integers, Sequences, FiniteSets, TLC

VARIABLES
    platform,      \* target_os the crate was compiled for: "linux" or "macos"
    devices,       \* what DeviceMonitor::devices() enumerates (Audio/Source)
    monitorHint,   \* env var MONITOR_HINT: None or Some(string)
    monStartOk,    \* whether DeviceMonitor::start() succeeds
    monPc,         \* "ready" before pick_pulse_monitor is called, "done" after
    monResult,     \* the Option<String> pick_pulse_monitor returned
    acc,           \* the sampler's Mutex<(u64, u64, Instant)>: pkts, bytes, start
    now,           \* the monotonic clock (Instant::now()), in ticks
    mutex,         \* the thread holding the sampler's mutex, or NoThread
    ppc,           \* per streaming thread: its position in the probe closure
    pbuf,          \* per streaming thread: buf.size() of the buffer it carries
    calls,         \* number of probe invocations so far
    reports,       \* the TX lines logged so far, oldest first
    window,        \* history: (size, dt) of the packets of the current window
    seen,          \* history: packets and bytes that reached the probe so far
    missing,       \* element factories the GStreamer registry cannot make
    hasDeviceProp, \* whether the capture element has a "device" property
    buildPc,       \* "none" before a build_* call, "returned" after it
    buildRes,      \* what the build_* call did and returned
    listeners,     \* bus listener threads spawned by attach_bus_logging
    role,          \* which Pipeline the lifecycle follows: sender or receiver
    state,         \* the gst::State of that Pipeline
    hist,          \* history: the start()/stop() calls made and their returns
    bus,           \* messages posted on the Pipeline's bus, not yet drained
    log,           \* lines the listener wrote to stderr
    drained,       \* number of messages the listener has taken off the bus
    posted,        \* number of messages the running graph has posted
    busOpen,       \* FALSE once the bus iterator has come to its end
    lpc            \* the listener thread: "draining" its loop, or "exited"

worldVars == <<platform, devices, monitorHint, monStartOk, missing, hasDeviceProp>>
monVars == <<monPc, monResult>>
samplerVars == <<acc, now, mutex, ppc, pbuf, calls, reports, window, seen>>
buildVars == <<buildPc, buildRes>>
lifeVars == <<role, state, hist, bus, log, drained, posted, busOpen, lpc>>
vars == <<worldVars, monVars, samplerVars, buildVars, listeners, lifeVars>>

(***************************************************************************)
(* Option<T>: None is the empty sequence, Some(v) the one-element sequence *)
(***************************************************************************)
None == <<>>
Some(v) == <<v>>
IsSome(o) == Len(o) = 1
Unwrap(o) == o[1]

(***************************************************************************)
(* Bounds of the model                                                     *)
(***************************************************************************)
MaxDevices == 3
MaxCalls == 3       \* probe invocations
MaxSize == 2        \* largest buffer size
MaxTime == 4        \* clock ticks
TicksPerSec == 2    \* resolution of the clock
MaxMissing == 1     \* element factories missing from the registry
MaxOps == 2         \* start()/stop() calls on a Pipeline
MaxMsgs == 1        \* messages posted by the running graph

(***************************************************************************)
(* Concrete strings used as inputs                                         *)
(***************************************************************************)
n_monOfSpk == <<"M", "o", "n", "i", "t", "o", "r", " ", "o", "f", " ", "S", "p", "k">>
n_mic == <<"M", "i", "c">>
n_loop == <<"L", "o", "o", "p", "b", "a", "c", "k">>
n_usb == <<"U", "S", "B", " ", "A", "u", "d", "i", "o">>
n_hdmi == <<"H", "D", "M", "I", ".", "m", "o", "n", "i", "t", "o", "r">>
n_tap == <<"T", "a", "p">>
p_alsaMon == <<"a", "l", "s", "a", "_", "o", "u", "t", ".", "m", "o", "n", "i", "t", "o", "r">>
p_alsaIn == <<"a", "l", "s", "a", "_", "i", "n">>
p_outMON == <<"o", "u", "t", ".", "M", "O", "N", "I", "T", "O", "R">>
p_usb2 == <<"u", "s", "b", ".", "2">>
p_descUsb == <<"M", "o", "n", "i", "t", "o", "r", " ", "o", "f", " ", "U", "S", "B">>
p_webcam == <<"W", "e", "b", "c", "a", "m">>
p_tapMon == <<"t", "a", "p", ".", "m", "o", "n", "i", "t", "o", "r">>
h_usb == <<"u", "s", "b">>
h_HDMI == <<"H", "D", "M", "I">>
h_empty == <<>>
h_zzz == <<"z", "z", "z">>
h_OUT == <<"O", "U", "T">>
c_0 == <<"0">>
c_neg1 == <<"-", "1">>
c_plus3 == <<"+", "3">>
c_blackhole == <<"B", "l", "a", "c", "k", "H", "o", "l", "e", " ", "2", "c", "h">>
c_1a == <<"1", "a">>
c_plus == <<"+">>
c_empty == <<>>
c_max == <<"2", "1", "4", "7", "4", "8", "3", "6", "4", "7">>
c_over == <<"2", "1", "4", "7", "4", "8", "3", "6", "4", "8">>
host_ip == <<"1", "0", ".", "0", ".", "0", ".", "5">>
host_bad == <<"b", "a", "d", " ", "h", "o", "s", "t">>

(***************************************************************************)
(* str::to_lowercase and str::contains on ASCII strings                    *)
(***************************************************************************)
UpperChars == <<"A","B","C","D","E","F","G","H","I","J","K","L","M",
                "N","O","P","Q","R","S","T","U","V","W","X","Y","Z">>
LowerChars == <<"a","b","c","d","e","f","g","h","i","j","k","l","m",
                "n","o","p","q","r","s","t","u","v","w","x","y","z">>

ToLowerChar(c) ==
    IF \E i \in 1..26 : UpperChars[i] = c
    THEN LowerChars[CHOOSE i \in 1..26 : UpperChars[i] = c]
    ELSE c

ToLowercase(s) == [i \in 1..Len(s) |-> ToLowerChar(s[i])]

Contains(s, pat) ==
    \E i \in 0..(Len(s) - Len(pat)) : SubSeq(s, i + 1, i + Len(pat)) = pat

\* the literal "monitor" of lines 168, 182 and 187
MonitorToken == <<"m", "o", "n", "i", "t", "o", "r">>

(***************************************************************************)
(* Devices: a display name and an optional property structure holding the  *)
(* optional string properties "device", "node.name", "device.description". *)
(***************************************************************************)
Props(dev, node, desc) == [device |-> dev, node_name |-> node, description |-> desc]
Device(name, props) == [name |-> name, props |-> props]

DevicePool ==
    { Device(n_monOfSpk, Some(Props(Some(p_alsaMon), None, None))),
      Device(n_mic,      Some(Props(Some(p_alsaIn), None, Some(p_webcam)))),
      Device(n_loop,     Some(Props(None, Some(p_outMON), None))),
      Device(n_usb,      Some(Props(Some(p_usb2), None, Some(p_descUsb)))),
      Device(n_hdmi,     None),
      Device(n_tap,      Some(Props(Some(p_tapMon), None, None))),
      Device(n_loop,     Some(Props(Some(p_usb2), Some(p_outMON), None))),
      Device(n_tap,      Some(Props(None, None, Some(p_descUsb)))) }

HintPool == {None, Some(h_usb), Some(h_HDMI), Some(h_empty), Some(h_zzz), Some(h_OUT)}

DeviceLists(n) == UNION { [1..k -> DevicePool] : k \in 0..n }

(***************************************************************************)
(* pick_pulse_monitor (linux): the body of the loop over mon.devices()     *)
(***************************************************************************)
\* mutant: only the display name is inspected
IsMonitor_NameOnly(d) == Contains(ToLowercase(d.name), MonitorToken)

\* lines 168-192: is_monitor
IsMonitor(d) ==
    LET byName == Contains(ToLowercase(d.name), MonitorToken)
    IN  IF d.props = None THEN byName
        ELSE LET p == Unwrap(d.props)
             IN  byName
                 \/ (IsSome(p.description)
                     /\ Contains(ToLowercase(Unwrap(p.description)), MonitorToken))
                 \/ (IsSome(p.node_name)
                     /\ Contains(ToLowercase(Unwrap(p.node_name)), MonitorToken))

\* mutant: "node.name" is looked up before "device"
DevIdOf_NodeFirst(d) ==
    IF d.props = None THEN None
    ELSE LET p == Unwrap(d.props)
         IN  IF IsSome(p.node_name) THEN p.node_name
             ELSE IF IsSome(p.device) THEN p.device
             ELSE None

\* lines 169-177: dev_id
DevIdOf(d) ==
    IF d.props = None THEN None
    ELSE LET p == Unwrap(d.props)
         IN  IF IsSome(p.device) THEN p.device
             ELSE IF IsSome(p.node_name) THEN p.node_name
             ELSE None

\* line 195: dev_id.clone().unwrap_or_else(|| name.clone())
CandidateId(d) == IF IsSome(DevIdOf(d)) THEN Unwrap(DevIdOf(d)) ELSE d.name

\* line 205: the preference test, hint already lower-cased (line 158)
HintHit(d, h) ==
    Contains(ToLowercase(d.name), h) \/ Contains(ToLowercase(CandidateId(d)), h)

\* mutant: first_monitor.or(preferred)
PickReturn_FirstWins(preferred, first_monitor) ==
    IF IsSome(first_monitor) THEN first_monitor ELSE preferred

\* line 215
PickReturn(preferred, first_monitor) ==
    IF IsSome(preferred) THEN preferred ELSE first_monitor

\* lines 162-211: the for loop, with its break at line 207
RECURSIVE ScanDevices(_, _, _, _, _)
ScanDevices(devs, i, hint, first_monitor, preferred) ==
    IF i > Len(devs) THEN PickReturn(preferred, first_monitor)
    ELSE LET d == devs[i]
         IN  IF ~IsMonitor(d)
             THEN ScanDevices(devs, i + 1, hint, first_monitor, preferred)
             ELSE LET id == CandidateId(d)
                      first2 == IF first_monitor = None THEN Some(id)
                                ELSE first_monitor
                  IN  IF IsSome(hint) /\ HintHit(d, Unwrap(hint))
                      THEN PickReturn(Some(id), first2)
                      ELSE ScanDevices(devs, i + 1, hint, first2, preferred)

\* lines 152-216
PickPulseMonitor(devs, prefer_contains, startOk) ==
    IF ~startOk THEN None
    ELSE LET hint == IF IsSome(prefer_contains)
                     THEN Some(ToLowercase(Unwrap(prefer_contains)))
                     ELSE None
         IN  ScanDevices(devs, 1, hint, None, None)

(***************************************************************************)
(* attach_tx_stats: the BUFFER probe on the payloader's src pad            *)
(***************************************************************************)
\* the streaming threads that may carry a buffer through the pad
Threads == {"t1", "t2"}
NoThread == "none"
Sizes == 0..MaxSize

\* Duration::from_secs(1), line 117, in clock ticks
OneSecond == TicksPerSec

\* line 107: (0u64, 0u64, Instant::now())
NewAcc(t) == [pkts |-> 0, bytes |-> 0, start |-> t]

\* the values the parts of the state keep in the specifications that do not
\* exercise them
WorldIdle ==
    /\ platform = "linux"
    /\ devices = <<>>
    /\ monitorHint = None
    /\ monStartOk = TRUE
    /\ missing = {}
    /\ hasDeviceProp = TRUE

MonitorIdle ==
    /\ monPc = "ready"
    /\ monResult = None

\* no build_* call was made yet
NoBuild == [role |-> "none"]

BuildIdle ==
    /\ buildPc = "none"
    /\ buildRes = NoBuild
    /\ listeners = 0

LifeIdle ==
    /\ role = "none"
    /\ state = "Null"
    /\ hist = <<>>
    /\ bus = <<>>
    /\ log = <<>>
    /\ drained = 0
    /\ posted = 0
    /\ busOpen = TRUE
    /\ lpc = "draining"

\* the sampler before any probe ran
SamplerIdle ==
    /\ now = 0
    /\ acc = NewAcc(0)
    /\ mutex = NoThread
    /\ ppc = [t \in Threads |-> "idle"]
    /\ pbuf = [t \in Threads |-> 0]
    /\ calls = 0
    /\ reports = <<>>
    /\ window = <<>>
    /\ seen = [pkts |-> 0, bytes |-> 0]

\* mutant: the byte counter is bumped by one instead of by the size
AccAdd_BytesByOne(a, sz) == [a EXCEPT !.pkts = @ + 1, !.bytes = @ + 1]

\* lines 114-115: s.0 += 1; s.1 += sz
AccAdd(a, sz) == [a EXCEPT !.pkts = @ + 1, !.bytes = @ + sz]

\* mutant: only the window start is renewed, the counters are kept
ResetAcc_KeepCounters(a, t) == [a EXCEPT !.start = t]

\* line 129: *s = (0, 0, Instant::now())
ResetAcc(a, t) == NewAcc(t)

\* line 116: s.2.elapsed()
Elapsed(a) == now - a.start

\* lines 118-128: what the eprintln! reports
ReportOf(a, dt, win) == [pkts |-> a.pkts, bytes |-> a.bytes, dt |-> dt, window |-> win]

notSampler == <<worldVars, monVars, buildVars, listeners, lifeVars>>

\* lines 110-111: the probe is invoked without a buffer: nothing is counted
ProbeNoBuffer(t) ==
    /\ ppc[t] = "idle"
    /\ calls < MaxCalls
    /\ calls' = calls + 1
    /\ UNCHANGED <<acc, now, mutex, ppc, pbuf, reports, window>>
    /\ UNCHANGED seen
    /\ UNCHANGED notSampler

\* lines 110-112: the probe is invoked with a buffer of sz bytes
ProbeEnter(t, sz) ==
    /\ ppc[t] = "idle"
    /\ calls < MaxCalls
    /\ calls' = calls + 1
    /\ pbuf' = [pbuf EXCEPT ![t] = sz]
    /\ ppc' = [ppc EXCEPT ![t] = "lock"]
    /\ seen' = [pkts |-> seen.pkts + 1, bytes |-> seen.bytes + sz]
    /\ UNCHANGED <<acc, now, mutex, reports, window>>
    /\ UNCHANGED notSampler

\* mutant: the closure enters without waiting for the mutex
ProbeLock_NoWait(t) ==
    /\ ppc[t] = "lock"
    /\ mutex' = t
    /\ ppc' = [ppc EXCEPT ![t] = "count"]
    /\ UNCHANGED <<acc, now, pbuf, calls, reports, window>>
    /\ UNCHANGED seen
    /\ UNCHANGED notSampler

\* line 113: st.lock().unwrap()
ProbeLock(t) ==
    /\ ppc[t] = "lock"
    /\ mutex = NoThread
    /\ mutex' = t
    /\ ppc' = [ppc EXCEPT ![t] = "count"]
    /\ UNCHANGED <<acc, now, pbuf, calls, reports, window>>
    /\ UNCHANGED seen
    /\ UNCHANGED notSampler

\* lines 114-115
ProbeCount(t) ==
    /\ ppc[t] = "count"
    /\ acc' = AccAdd(acc, pbuf[t])
    /\ ppc' = [ppc EXCEPT ![t] = "check"]
    /\ UNCHANGED <<now, mutex, pbuf, calls, reports, window>>
    /\ UNCHANGED seen
    /\ UNCHANGED notSampler

\* lines 116-132: read the elapsed time, report and reset when a second or
\* more has passed, then drop the guard.  The clock may advance between
\* elapsed() (line 116) and Instant::now() (line 129).
ProbeCheck(t) ==
    /\ ppc[t] = "check"
    /\ LET dt == Elapsed(acc)
           win == Append(window, [sz |-> pbuf[t], dt |-> dt])
       IN  IF dt >= OneSecond
           THEN \E d \in 0..1 :
                  /\ now + d <= MaxTime
                  /\ now' = now + d
                  /\ reports' = Append(reports, ReportOf(acc, dt, win))
                  /\ acc' = ResetAcc(acc, now')
                  /\ window' = <<>>
           ELSE /\ window' = win
                /\ UNCHANGED <<acc, now, reports>>
    /\ mutex' = NoThread
    /\ ppc' = [ppc EXCEPT ![t] = "idle"]
    /\ pbuf' = [pbuf EXCEPT ![t] = 0]
    /\ UNCHANGED calls
    /\ UNCHANGED seen
    /\ UNCHANGED notSampler

\* time passes
Tick ==
    /\ now < MaxTime
    /\ now' = now + 1
    /\ UNCHANGED <<acc, mutex, ppc, pbuf, calls, reports, window>>
    /\ UNCHANGED seen
    /\ UNCHANGED notSampler

InitSampler ==
    /\ WorldIdle
    /\ MonitorIdle
    /\ SamplerIdle
    /\ BuildIdle
    /\ LifeIdle

NextSampler ==
    \/ \E t \in Threads : ProbeNoBuffer(t)
    \/ \E t \in Threads, sz \in Sizes : ProbeEnter(t, sz)
    \/ \E t \in Threads : ProbeLock(t)
    \/ \E t \in Threads : ProbeCount(t)
    \/ \E t \in Threads : ProbeCheck(t)
    \/ Tick

SpecSampler == InitSampler /\ [][NextSampler]_vars

(***************************************************************************)
(* str::parse::<i32>() of line 245                                         *)
(***************************************************************************)
I32Max == 2147483647
I32Min == -I32Max - 1

DigitChars == <<"0", "1", "2", "3", "4", "5", "6", "7", "8", "9">>
IsDigit(c) == \E i \in 1..10 : DigitChars[i] = c
DigitVal(c) == (CHOOSE i \in 1..10 : DigitChars[i] = c) - 1

\* the digit loop: every character must be a decimal digit and the running
\* value must stay within i32 (checked multiplication and addition)
RECURSIVE ParseDigits(_, _, _, _)
ParseDigits(s, i, val, neg) ==
    IF i > Len(s) THEN Some(val)
    ELSE IF ~IsDigit(s[i]) THEN None
    ELSE LET d == DigitVal(s[i])
         IN  IF neg
             THEN IF val < (I32Min + d + 9) \div 10 THEN None
                  ELSE ParseDigits(s, i + 1, val * 10 - d, neg)
             ELSE IF val > (I32Max - d) \div 10 THEN None
                  ELSE ParseDigits(s, i + 1, val * 10 + d, neg)

ParseI32(s) ==
    IF Len(s) = 0 THEN None
    ELSE IF s[1] \in {"+", "-"}
         THEN IF Len(s) = 1 THEN None
              ELSE ParseDigits(s, 2, 0, s[1] = "-")
         ELSE ParseDigits(s, 1, 0, FALSE)

(***************************************************************************)
(* build_sender and build_receiver                                         *)
(***************************************************************************)
CaptureHintPool ==
    {None, Some(c_0), Some(c_neg1), Some(c_plus3), Some(c_blackhole),
     Some(c_1a), Some(c_plus), Some(c_empty), Some(c_max), Some(c_over),
     Some(p_alsaMon)}

HostPool == {host_ip, host_bad}

\* whether a destination host string is one a UDP socket can send to
HostResolvable(h) == h = host_ip

\* lines 231, 258, 294-337: the factories of the sender's stages, in order
SenderFactories(plat) ==
    << IF plat = "macos" THEN "osxaudiosrc" ELSE "pulsesrc",
       "queue", "audioconvert", "audioresample", "capsfilter", "level",
       "opusenc", "rtpopuspay", "udpsink" >>

\* lines 432-447: the render sink
ReceiverSink(plat, pulseSink, autoSink) ==
    IF plat = "macos" THEN "osxaudiosink"
    ELSE IF pulseSink THEN "pulsesink"
    ELSE IF autoSink THEN "autoaudiosink"
    ELSE "pulsesink"

\* lines 369-447: the factories of the receiver's stages, in order
ReceiverFactories(plat, pulseSink, autoSink) ==
    << "udpsrc", "queue", "rtpjitterbuffer", "rtpopusdepay", "opusdec",
       "audioconvert", "audioresample", "level", "queue",
       ReceiverSink(plat, pulseSink, autoSink) >>

AllFactories ==
    { "osxaudiosrc", "pulsesrc", "queue", "audioconvert", "audioresample",
      "capsfilter", "level", "opusenc", "rtpopuspay", "udpsink", "udpsrc",
      "rtpjitterbuffer", "rtpopusdepay", "opusdec", "osxaudiosink",
      "pulsesink", "autoaudiosink" }

\* lines 21-28: make_element succeeds iff the registry can make the factory
MakeElement(factory) == factory \notin missing

\* index of the first make_element(..)? that returns Err, 0 when none does
FirstFailure(seq) ==
    IF \E i \in 1..Len(seq) : ~MakeElement(seq[i])
    THEN CHOOSE i \in 1..Len(seq) :
            /\ ~MakeElement(seq[i])
            /\ \A j \in 1..(i - 1) : MakeElement(seq[j])
    ELSE 0

\* the elements created before the build returned
CreatedPrefix(seq) ==
    IF FirstFailure(seq) = 0 THEN seq ELSE SubSeq(seq, 1, FirstFailure(seq) - 1)

NoSelection == [device |-> None, warned |-> {}, heuristic |-> FALSE]

\* mutant: name.parse().unwrap_or(0): a hint that is no integer selects 0
SelectDeviceMacos_DefaultIndex(device_name) ==
    IF IsSome(device_name) /\ hasDeviceProp
    THEN LET idx == ParseI32(Unwrap(device_name))
         IN  [device |-> Some(<<"index", IF IsSome(idx) THEN Unwrap(idx) ELSE 0>>),
              warned |-> {}, heuristic |-> FALSE]
    ELSE [device |-> None, warned |-> {}, heuristic |-> FALSE]

\* lines 243-252 (macos): the hint must parse as an i32 index
SelectDeviceMacos(device_name) ==
    IF IsSome(device_name) /\ hasDeviceProp
    THEN LET idx == ParseI32(Unwrap(device_name))
         IN  IF IsSome(idx)
             THEN [device |-> Some(<<"index", Unwrap(idx)>>), warned |-> {},
                   heuristic |-> FALSE]
             ELSE [device |-> None, warned |-> {"not-an-index"},
                   heuristic |-> FALSE]
    ELSE NoSelection

\* lines 259-277 (linux): the hint is the device name; without a hint the
\* monitor discovery runs
SelectDeviceLinux(device_name) ==
    IF IsSome(device_name)
    THEN [device |-> IF hasDeviceProp THEN Some(<<"name", Unwrap(device_name)>>)
                     ELSE None,
          warned |-> {}, heuristic |-> FALSE]
    ELSE LET dev == PickPulseMonitor(devices, monitorHint, monStartOk)
         IN  IF IsSome(dev)
             THEN [device |-> IF hasDeviceProp THEN Some(<<"name", Unwrap(dev)>>)
                              ELSE None,
                   warned |-> {}, heuristic |-> TRUE]
             ELSE [device |-> None, warned |-> {"no-monitor"}, heuristic |-> TRUE]

SelectDevice(device_name) ==
    IF platform = "macos" THEN SelectDeviceMacos(device_name)
    ELSE SelectDeviceLinux(device_name)

\* mutant: the listener is attached as soon as the Pipeline object exists
ListenersAttached_Early(linked) == 1

\* lines 357, 475: attach_bus_logging is reached only after add_many and
\* link_many returned Ok; gst::Pipeline always has a bus (line 31)
ListenersAttached(linked) == IF linked THEN 1 ELSE 0

\* lines 352-355, 472-473: caps probes and the TX stats probe
ProbesAttached(r, linked) ==
    IF ~linked THEN 0 ELSE IF r = "sender" THEN 4 ELSE 2

notBuild == <<worldVars, monVars, samplerVars, lifeVars>>

\* lines 225-360
BuildSender(device_name, host, addOk, linkOk) ==
    /\ buildPc = "none"
    /\ LET seq == SenderFactories(platform)
           k == FirstFailure(seq)
           sel == IF k = 1 THEN NoSelection ELSE SelectDevice(device_name)
           added == k = 0 /\ addOk
           linked == added /\ linkOk
       IN  /\ buildRes' =
                [ role |-> "sender",
                  args |-> [device_name |-> device_name, host |-> host],
                  env |-> [pulseSink |-> FALSE, autoSink |-> FALSE],
                  graph |-> [addOk |-> addOk, linkOk |-> linkOk],
                  created |-> CreatedPrefix(seq),
                  device |-> sel.device,
                  warned |-> sel.warned,
                  heuristic |-> sel.heuristic,
                  sinkHost |-> IF k = 0 THEN Some(host) ELSE None,
                  linked |-> linked,
                  probes |-> ProbesAttached("sender", linked),
                  res |-> IF linked THEN "ok" ELSE "err",
                  pipeline |-> linked ]
           /\ listeners' = listeners + ListenersAttached(linked)
    /\ buildPc' = "returned"
    /\ UNCHANGED notBuild

\* lines 366-478
BuildReceiver(pulseSink, autoSink, addOk, linkOk) ==
    /\ buildPc = "none"
    /\ LET seq == ReceiverFactories(platform, pulseSink, autoSink)
           k == FirstFailure(seq)
           added == k = 0 /\ addOk
           linked == added /\ linkOk
       IN  /\ buildRes' =
                [ role |-> "receiver",
                  args |-> [device_name |-> None, host |-> <<>>],
                  env |-> [pulseSink |-> pulseSink, autoSink |-> autoSink],
                  graph |-> [addOk |-> addOk, linkOk |-> linkOk],
                  created |-> CreatedPrefix(seq),
                  device |-> None,
                  warned |-> {},
                  heuristic |-> FALSE,
                  sinkHost |-> None,
                  linked |-> linked,
                  probes |-> ProbesAttached("receiver", linked),
                  res |-> IF linked THEN "ok" ELSE "err",
                  pipeline |-> linked ]
           /\ listeners' = listeners + ListenersAttached(linked)
    /\ buildPc' = "returned"
    /\ UNCHANGED notBuild

BuildDeviceLists ==
    { <<>>,
      << Device(n_mic, None) >>,
      << Device(n_mic, None), Device(n_hdmi, None) >> }

InitBuild ==
    /\ platform \in {"linux", "macos"}
    /\ devices \in BuildDeviceLists
    /\ monitorHint \in {None, Some(h_HDMI)}
    /\ monStartOk \in BOOLEAN
    /\ missing \in { m \in SUBSET AllFactories : Cardinality(m) <= MaxMissing }
    /\ hasDeviceProp \in BOOLEAN
    /\ MonitorIdle
    /\ SamplerIdle
    /\ BuildIdle
    /\ LifeIdle

NextBuild ==
    \/ \E d \in CaptureHintPool, h \in HostPool, a \in BOOLEAN, l \in BOOLEAN :
          BuildSender(d, h, a, l)
    \/ \E p \in BOOLEAN, u \in BOOLEAN, a \in BOOLEAN, l \in BOOLEAN :
          BuildReceiver(p, u, a, l)

SpecBuild == InitBuild /\ [][NextBuild]_vars

(***************************************************************************)
(* Sender/Receiver start and stop, the Pipeline's bus and its listener      *)
(***************************************************************************)
Roles == {"sender", "receiver"}
GstStates == {"Null", "Ready", "Paused", "Playing"}

\* what the graph may post on the bus, as the listener's match sees it:
\* the message type, where it comes from, whether it carries a structure
Msg(kind, src, structure) == [kind |-> kind, src |-> src, structure |-> structure]

MsgPool ==
    { Msg("Error", "element", FALSE),
      Msg("Warning", "element", FALSE),
      Msg("Info", "element", FALSE),
      Msg("Element", "element", TRUE),
      Msg("Element", "element", FALSE),
      Msg("StateChanged", "element", FALSE),
      Msg("Latency", "element", FALSE),
      Msg("Eos", "pipeline", FALSE) }

\* the message a Pipeline posts when its own state changed
PipelineStateChanged == Msg("StateChanged", "pipeline", FALSE)

\* lines 36-80: the lines the listener prints for one message
LogLines(tag, m) ==
    IF m.kind = "Error" THEN << <<tag, "ERROR">> >>
    ELSE IF m.kind = "Warning" THEN << <<tag, "WARN">> >>
    ELSE IF m.kind = "Info" THEN << <<tag, "INFO">> >>
    ELSE IF m.kind = "Element"
         THEN IF m.structure THEN << <<tag, "ELEMENT">> >> ELSE <<>>
    ELSE IF m.kind = "StateChanged"
         THEN IF m.src = "pipeline" THEN << <<tag, "state changed">> >> ELSE <<>>
    ELSE IF m.kind = "Latency" THEN << <<tag, "latency message">> >>
    ELSE <<>>

\* mutant: the listener shuts the Pipeline down when it sees an error
ListenerSetsState_StopOnError(m, s) == IF m.kind = "Error" THEN "Null" ELSE s

\* lines 34-81: the listener only prints; it holds the bus, not the Pipeline,
\* and never calls set_state
ListenerSetsState(m, s) == s

\* mutant: the failure of set_state(Playing) is swallowed
StartReturn_Swallow(accepted) == "ok"

\* lines 487-491 and 503-507: set_state(Playing).context(..)? then Ok(())
StartReturn(accepted) == IF accepted THEN "ok" ELSE "err"

\* mutant: the result of set_state(Null) is returned to the caller
StopReturn_Propagate(accepted) == IF accepted THEN "ok" ELSE "err"

\* lines 495 and 511: let _ = set_state(Null); stop() returns ()
StopReturn(accepted) == "ok"

\* gst::Pipeline::set_state: the messages the Pipeline posts about it
PostedBySetState(from, to) ==
    IF from # to THEN <<PipelineStateChanged>> ELSE <<>>

notLife == <<worldVars, monVars, samplerVars, buildVars, listeners>>

\* gst::Pipeline::set_state walks Null - Ready - Paused - Playing one step at
\* a time.  When the graph accepts, the Pipeline ends in the target; when a
\* step is rejected the Pipeline stays where the walk had got to, which is
\* short of the target (or the state it was in, if that is the target).
StateRank(s) ==
    IF s = "Null" THEN 1 ELSE IF s = "Ready" THEN 2
    ELSE IF s = "Paused" THEN 3 ELSE 4

AfterSetState(from, target, accepted) ==
    IF accepted THEN {target}
    ELSE IF from = target THEN {from}
    ELSE { s \in GstStates \ {target} :
             \/ StateRank(from) <= StateRank(s) /\ StateRank(s) < StateRank(target)
             \/ StateRank(target) < StateRank(s) /\ StateRank(s) <= StateRank(from) }

\* Sender::start / Receiver::start
Start(accepted, after) ==
    /\ role \in Roles
    /\ Len(hist) < MaxOps
    /\ after \in AfterSetState(state, "Playing", accepted)
    /\ state' = after
    /\ bus' = IF busOpen THEN bus \o PostedBySetState(state, after) ELSE bus
    /\ hist' = Append(hist, [op |-> "start", target |-> "Playing",
                             from |-> state, accepted |-> accepted,
                             to |-> after, ret |-> StartReturn(accepted)])
    /\ UNCHANGED <<role, log, drained, posted, busOpen, lpc>>
    /\ UNCHANGED notLife

\* Sender::stop / Receiver::stop
Stop(accepted, after) ==
    /\ role \in Roles
    /\ Len(hist) < MaxOps
    /\ after \in AfterSetState(state, "Null", accepted)
    /\ state' = after
    /\ bus' = IF busOpen THEN bus \o PostedBySetState(state, after) ELSE bus
    /\ hist' = Append(hist, [op |-> "stop", target |-> "Null",
                             from |-> state, accepted |-> accepted,
                             to |-> after, ret |-> StopReturn(accepted)])
    /\ UNCHANGED <<role, log, drained, posted, busOpen, lpc>>
    /\ UNCHANGED notLife

\* the running graph (its elements) posts a message on the bus
PostMessage(m) ==
    /\ role \in Roles
    /\ posted < MaxMsgs
    /\ busOpen
    /\ posted' = posted + 1
    /\ bus' = Append(bus, m)
    /\ UNCHANGED <<role, state, hist, log, drained, busOpen, lpc>>
    /\ UNCHANGED notLife

\* lines 34-81: one iteration of the listener thread's loop over the bus
ListenerStep ==
    /\ listeners >= 1
    /\ lpc = "draining"
    /\ bus # <<>>
    /\ bus' = Tail(bus)
    /\ log' = log \o LogLines(role, Head(bus))
    /\ drained' = drained + 1
    /\ state' = ListenerSetsState(Head(bus), state)
    /\ UNCHANGED <<role, hist, posted, busOpen, lpc>>
    /\ UNCHANGED notLife

\* the bus stops delivering: from then on bus.iter_timed(..) yields None
\* once the queued messages are taken.  gst decides when (the Pipeline and
\* its bus being torn down); nothing in this crate asks for it.
StreamEnds ==
    /\ role \in Roles
    /\ busOpen
    /\ busOpen' = FALSE
    /\ UNCHANGED <<role, state, hist, bus, log, drained, posted, lpc>>
    /\ UNCHANGED notLife

\* mutant: the loop gives up as soon as the queue is empty (a pop without
\* blocking)
ListenerMayExit_OnEmpty == bus = <<>>

\* line 34: the for loop ends when the iterator yields None, which with
\* ClockTime::NONE is not before the stream has ended
ListenerMayExit == bus = <<>> /\ ~busOpen

\* lines 34, 81-82: the loop is left and the thread's closure returns
ListenerExit ==
    /\ listeners >= 1
    /\ lpc = "draining"
    /\ ListenerMayExit
    /\ lpc' = "exited"
    /\ UNCHANGED <<role, state, hist, bus, log, drained, posted, busOpen>>
    /\ UNCHANGED notLife

\* a Pipeline fresh from a successful build_sender or build_receiver: state
\* Null, one listener attached, nothing posted
InitLife ==
    /\ WorldIdle
    /\ MonitorIdle
    /\ SamplerIdle
    /\ buildPc = "none"
    /\ buildRes = NoBuild
    /\ listeners = ListenersAttached(TRUE)
    /\ role \in Roles
    /\ state = "Null"
    /\ hist = <<>>
    /\ bus = <<>>
    /\ log = <<>>
    /\ drained = 0
    /\ posted = 0
    /\ busOpen = TRUE
    /\ lpc = "draining"

NextLife ==
    \/ \E a \in BOOLEAN, s \in GstStates : Start(a, s)
    \/ \E a \in BOOLEAN, s \in GstStates : Stop(a, s)
    \/ \E m \in MsgPool : PostMessage(m)
    \/ ListenerStep
    \/ StreamEnds
    \/ ListenerExit

SpecLife == InitLife /\ [][NextLife]_vars

(***************************************************************************)
(* Specification of the discovery scan: the world (devices, MONITOR_HINT,  *)
(* whether the device monitor starts) is chosen, then the scan runs once.  *)
(***************************************************************************)
InitMonitor ==
    /\ platform = "linux"
    /\ devices \in DeviceLists(MaxDevices)
    /\ monitorHint \in HintPool
    /\ monStartOk \in BOOLEAN
    /\ missing = {}
    /\ hasDeviceProp = TRUE
    /\ MonitorIdle
    /\ SamplerIdle
    /\ BuildIdle
    /\ LifeIdle

CallPickPulseMonitor ==
    /\ monPc = "ready"
    /\ monPc' = "done"
    /\ monResult' = PickPulseMonitor(devices, monitorHint, monStartOk)
    /\ UNCHANGED <<worldVars, samplerVars, buildVars, listeners, lifeVars>>

NextMonitor == CallPickPulseMonitor

SpecMonitor == InitMonitor /\ [][NextMonitor]_vars

(***************************************************************************)
(* Claims about monitor discovery                                          *)
(***************************************************************************)
MentionsMonitor(s) == Contains(ToLowercase(s), MonitorToken)

\* the strings of a device the classification looks at: its display name,
\* its device description and its node name
RelevantStrings(d) ==
    {d.name} \cup
    (IF d.props = None THEN {}
     ELSE { Unwrap(o) : o \in { q \in {Unwrap(d.props).description,
                                       Unwrap(d.props).node_name} : IsSome(q) } })

Qualifies(d) == \E s \in RelevantStrings(d) : MentionsMonitor(s)

MonitorIdx == { i \in 1..Len(devices) : Qualifies(devices[i]) }

\* case-insensitive containment of MONITOR_HINT in a candidate's name or id
HintMatches(d) ==
    /\ IsSome(monitorHint)
    /\ LET h == ToLowercase(Unwrap(monitorHint))
       IN  \/ Contains(ToLowercase(d.name), h)
           \/ Contains(ToLowercase(CandidateId(d)), h)

MatchingIdx == { i \in MonitorIdx : HintMatches(devices[i]) }

FirstOf(S) == CHOOSE i \in S : \A j \in S : i <= j

\* C2: once the device list was enumerated, discovery returns Some(..) exactly
\* when some device mentions "monitor" (any case) in its display name, its
\* device description or its node name; otherwise it returns None.
C2_MonitorFoundIff ==
    (monPc = "done" /\ monStartOk)
        => (IsSome(monResult) <=> MonitorIdx # {})

\* a monitor was selected although no display name mentions "monitor":
\* the selection rests on a property
C2_Witness ==
    /\ monPc = "done" /\ monStartOk
    /\ IsSome(monResult)
    /\ \A i \in 1..Len(devices) : ~MentionsMonitor(devices[i].name)
    /\ Len(devices) >= 2

\* C3: when MONITOR_HINT matches exactly one monitor candidate (name or id,
\* compared case-insensitively) discovery returns that candidate's id whatever
\* was enumerated before it; when it matches no monitor (or is unset) the
\* first monitor enumerated is returned.
C3_PreferredOrFirst ==
    (monPc = "done" /\ monStartOk) =>
        /\ (Cardinality(MatchingIdx) = 1
              => monResult = Some(CandidateId(devices[FirstOf(MatchingIdx)])))
        /\ (MatchingIdx = {} /\ MonitorIdx # {}
              => monResult = Some(CandidateId(devices[FirstOf(MonitorIdx)])))

\* the single matching monitor was enumerated after a non-matching monitor
\* with a different id, and it is the one returned
C3_Witness ==
    /\ monPc = "done" /\ monStartOk
    /\ Cardinality(MatchingIdx) = 1
    /\ FirstOf(MonitorIdx) < FirstOf(MatchingIdx)
    /\ CandidateId(devices[FirstOf(MonitorIdx)])
         # CandidateId(devices[FirstOf(MatchingIdx)])
    /\ monResult = Some(CandidateId(devices[FirstOf(MatchingIdx)]))

(***************************************************************************)
(* Claims about the throughput sampler                                     *)
(***************************************************************************)
RECURSIVE SumSizes(_)
SumSizes(w) == IF w = <<>> THEN 0 ELSE w[1].sz + SumSizes(Tail(w))

\* the packets of a window observed less than a second after its start
EarlyOf(w) == SelectSeq(w, LAMBDA e : e.dt < OneSecond)
\* the packets of a window observed a second or more after its start
LateOf(w) == SelectSeq(w, LAMBDA e : e.dt >= OneSecond)

\* C4 as stated: every report counts exactly the packets delivered less than
\* one second after the window start: packets = n, bytes = s_1 + ... + s_n.
C4_ReportCountsEarlyOnly ==
    \A i \in 1..Len(reports) :
        /\ reports[i].pkts = Len(EarlyOf(reports[i].window))
        /\ reports[i].bytes = SumSizes(EarlyOf(reports[i].window))

\* C4 amended: a report is emitted by the first packet observed a second or
\* more after the window start, and counts that packet too: after n packets
\* s_1..s_n under one second and the triggering packet s_(n+1), the report has
\* packets = n + 1 and bytes = s_1 + ... + s_n + s_(n+1).
C4_ReportCountsEarlyPlusTrigger ==
    \A i \in 1..Len(reports) :
        LET w == reports[i].window
        IN  /\ Len(LateOf(w)) = 1
            /\ w[Len(w)].dt >= OneSecond
            /\ reports[i].pkts = Len(EarlyOf(w)) + 1
            /\ reports[i].bytes = SumSizes(EarlyOf(w)) + w[Len(w)].sz

\* a report was emitted after two packets under one second, of different
\* sizes, and a triggering packet
C4_Witness ==
    \E i \in 1..Len(reports) :
        LET w == reports[i].window
        IN  /\ Len(EarlyOf(w)) = 2
            /\ w[1].sz # w[2].sz
            /\ w[3].sz > 0
            /\ reports[i].pkts = 3

\* C5: the step that emits a report leaves the accumulator at
\* (0 packets, 0 bytes, window start = now), and nothing counted before a
\* report is counted again: a report that follows another one and whose window
\* saw a single packet of size k reads packets = 1, bytes = k.
C5_ResetNoCarryOver ==
    [][ /\ (Len(reports') > Len(reports)
              => acc' = [pkts |-> 0, bytes |-> 0, start |-> now'])
        /\ \A i \in 2..Len(reports') :
              Len(reports'[i].window) = 1
                => /\ reports'[i].pkts = 1
                   /\ reports'[i].bytes = reports'[i].window[1].sz ]_vars

\* a second report was emitted for a window holding a single packet, after a
\* first report that had counted packets and bytes
C5_Witness ==
    /\ Len(reports) = 2
    /\ reports[1].pkts >= 1 /\ reports[1].bytes >= 1
    /\ Len(reports[2].window) = 1
    /\ reports[2].window[1].sz = 1
    /\ acc = [pkts |-> 0, bytes |-> 0, start |-> now]

(***************************************************************************)
(* Claims about the builders                                               *)
(***************************************************************************)
\* the stages a build needs, as a set
RequiredStages(r) ==
    IF r.role = "sender"
    THEN { IF platform = "macos" THEN "osxaudiosrc" ELSE "pulsesrc", "queue",
           "audioconvert", "audioresample", "capsfilter", "level", "opusenc",
           "rtpopuspay", "udpsink" }
    ELSE { "udpsrc", "queue", "rtpjitterbuffer", "rtpopusdepay", "opusdec",
           "audioconvert", "audioresample", "level",
           IF platform = "macos" THEN "osxaudiosink"
           ELSE IF r.env.pulseSink \/ ~r.env.autoSink THEN "pulsesink"
           ELSE "autoaudiosink" }

\* every stage can be made and the graph accepts adding and linking them
BuildComplete(r) ==
    /\ RequiredStages(r) \cap missing = {}
    /\ r.graph.addOk
    /\ r.graph.linkOk

\* C6: build_sender given a destination host that cannot be resolved returns
\* an error and no Sender.
C6_UnresolvableHostRejected ==
    (buildPc = "returned" /\ buildRes.role = "sender"
        /\ ~HostResolvable(buildRes.args.host))
        => (buildRes.res = "err" /\ ~buildRes.pipeline)

\* C7: a build is all-or-nothing: when a stage cannot be made, or adding or
\* linking fails, it returns an error, no Pipeline, and has attached no bus
\* listener and no probe; a Pipeline is returned only when every stage of
\* the sequence was created and linked.
C7_BuildAllOrNothing ==
    buildPc = "returned" =>
        /\ (~BuildComplete(buildRes)
              => /\ buildRes.res = "err"
                 /\ ~buildRes.pipeline
                 /\ listeners = 0
                 /\ buildRes.probes = 0)
        /\ (buildRes.pipeline
              => /\ BuildComplete(buildRes)
                 /\ buildRes.res = "ok"
                 /\ buildRes.linked
                 /\ { buildRes.created[i] : i \in 1..Len(buildRes.created) }
                       = RequiredStages(buildRes)
                 /\ Len(buildRes.created) =
                       (IF buildRes.role = "sender" THEN 9 ELSE 10))

\* every stage was created and added but linking failed: the build returned
\* an error and left no listener and no probe behind
C7_Witness ==
    /\ buildPc = "returned"
    /\ RequiredStages(buildRes) \cap missing = {}
    /\ buildRes.graph.addOk /\ ~buildRes.graph.linkOk
    /\ Len(buildRes.created) >= 9
    /\ buildRes.res = "err" /\ ~buildRes.pipeline
    /\ listeners = 0 /\ buildRes.probes = 0

\* a sender build that got as far as creating its capture element and was
\* given a device hint
HintedSender ==
    /\ buildPc = "returned"
    /\ buildRes.role = "sender"
    /\ Len(buildRes.created) >= 1
    /\ IsSome(buildRes.args.device_name)

C1_StopNeverFails ==
    \A i \in 1..Len(hist) : hist[i].op = "stop" => hist[i].ret = "ok"

\* stop() was called twice in a row on a Pipeline whose start() had failed
\* or that was never started, and a transition to Null was rejected
C1_Witness ==
    /\ Len(hist) >= 2
    /\ hist[Len(hist)].op = "stop" /\ hist[Len(hist) - 1].op = "stop"
    /\ \E i \in 1..Len(hist) : hist[i].op = "stop" /\ ~hist[i].accepted
    /\ \A i \in 1..Len(hist) : hist[i].op = "stop" => hist[i].ret = "ok"

\* C8: a step of the listener leaves the Pipeline's state and the calls made
\* on it (with their returns) as they were and posts nothing; and a Pipeline
\* that is Playing leaves Playing only in a step that is a stop() call.
C8_ListenerOnlyLogs ==
    [][ /\ (drained' # drained
              => /\ state' = state
                 /\ hist' = hist
                 /\ posted' = posted
                 /\ bus' = Tail(bus))
        /\ (state = "Playing" /\ state' # "Playing"
              => /\ Len(hist') = Len(hist) + 1
                 /\ hist'[Len(hist')].op = "stop") ]_vars

\* the listener has logged an error on a Pipeline that was started and never
\* stopped, and the Pipeline is still Playing
C8_Witness ==
    /\ state = "Playing"
    /\ Len(hist) = 1 /\ hist[1].op = "start" /\ hist[1].ret = "ok"
    /\ \E i \in 1..Len(log) : log[i] = <<role, "ERROR">>
    /\ drained >= 2

\* C9: start() on an idle (Null) Pipeline asks the graph for Playing; when the
\* graph accepts, the Pipeline is Playing and start() returns Ok; when it
\* rejects, start() returns the error, and every later stop() still asks the
\* graph for Null and returns without error.
C9_StartPropagatesStopStillOk ==
    \A i \in 1..Len(hist) :
        (hist[i].op = "start" /\ hist[i].from = "Null") =>
            /\ hist[i].target = "Playing"
            /\ (hist[i].accepted => hist[i].to = "Playing" /\ hist[i].ret = "ok")
            /\ (~hist[i].accepted =>
                  /\ hist[i].ret = "err"
                  /\ \A j \in (i + 1)..Len(hist) :
                        hist[j].op = "stop"
                          => hist[j].target = "Null" /\ hist[j].ret = "ok")

\* a start() from Null was rejected and returned the error, and the stop()
\* that followed returned normally and brought the Pipeline to Null
C9_Witness ==
    /\ Len(hist) = 2
    /\ hist[1].op = "start" /\ hist[1].from = "Null"
    /\ ~hist[1].accepted /\ hist[1].ret = "err" /\ hist[1].to = "Paused"
    /\ hist[2].op = "stop" /\ hist[2].ret = "ok" /\ hist[2].to = "Null"

(***************************************************************************)
(* Claim about the identifier of a monitor                                 *)
(***************************************************************************)
\* the connectable identifier of a device: its "device" property, else its
\* "node.name" property, else its display name
PreferredId(d) ==
    IF d.props # None /\ IsSome(Unwrap(d.props).device)
    THEN Unwrap(Unwrap(d.props).device)
    ELSE IF d.props # None /\ IsSome(Unwrap(d.props).node_name)
    THEN Unwrap(Unwrap(d.props).node_name)
    ELSE d.name

\* the monitors whose identifier or display name contains MONITOR_HINT
PreferredIdx ==
    { i \in MonitorIdx :
        /\ IsSome(monitorHint)
        /\ \E s \in {PreferredId(devices[i]), devices[i].name} :
              Contains(ToLowercase(s), ToLowercase(Unwrap(monitorHint))) }

\* C12: the identifier discovery returns is the selected monitor's "device"
\* property when present, else its "node.name" property when present, else
\* its display name; and the monitor selected is the first one whose
\* identifier (so chosen) or display name contains the preference substring,
\* or the first monitor when there is none.
C12_IdentifierPreference ==
    (monPc = "done" /\ monStartOk /\ MonitorIdx # {}) =>
        monResult = Some(PreferredId(devices[
                        IF PreferredIdx # {} THEN FirstOf(PreferredIdx)
                        ELSE FirstOf(MonitorIdx)]))

\* the monitor returned has both a "device" and a "node.name" property, which
\* differ, was preferred through its identifier alone, and was enumerated
\* after another monitor
C12_Witness ==
    /\ monPc = "done" /\ monStartOk
    /\ PreferredIdx # {}
    /\ FirstOf(MonitorIdx) < FirstOf(PreferredIdx)
    /\ LET d == devices[FirstOf(PreferredIdx)]
       IN  /\ d.props # None
           /\ IsSome(Unwrap(d.props).device)
           /\ IsSome(Unwrap(d.props).node_name)
           /\ Unwrap(d.props).device # Unwrap(d.props).node_name
           /\ ~Contains(ToLowercase(d.name), ToLowercase(Unwrap(monitorHint)))
           /\ monResult = Unwrap(d.props).device

(***************************************************************************)
(* Claim about concurrent probe invocations                                *)
(***************************************************************************)
ThreadsAt(S) == { t \in Threads : ppc[t] \in S }

RECURSIVE SumBuf(_)
SumBuf(S) ==
    IF S = {} THEN 0
    ELSE LET t == CHOOSE x \in S : TRUE IN pbuf[t] + SumBuf(S \ {t})

RECURSIVE SumReports(_, _)
SumReports(rs, bytes) ==
    IF rs = <<>> THEN 0
    ELSE (IF bytes THEN rs[1].bytes ELSE rs[1].pkts) + SumReports(Tail(rs), bytes)

RECURSIVE SumWindows(_)
SumWindows(rs) ==
    IF rs = <<>> THEN 0 ELSE Len(rs[1].window) + SumWindows(Tail(rs))

\* C13: whatever the interleaving of probe invocations on different threads,
\* the counting and the check-and-reset of one invocation run with the mutex
\* held and no other invocation between them, and no update is lost: the
\* packets and bytes of all reports plus those in the accumulator equal the
\* packets and bytes that have been counted, and every counted packet lies in
\* exactly one window (a report's, or the current one).
C13_AtomicNoLostUpdate ==
    /\ \A t \in Threads : ppc[t] \in {"count", "check"} <=> mutex = t
    /\ SumReports(reports, FALSE) + acc.pkts + Cardinality(ThreadsAt({"lock", "count"}))
         = seen.pkts
    /\ SumReports(reports, TRUE) + acc.bytes + SumBuf(ThreadsAt({"lock", "count"}))
         = seen.bytes
    /\ \A i \in 1..Len(reports) :
          /\ reports[i].pkts = Len(reports[i].window)
          /\ reports[i].bytes = SumSizes(reports[i].window)
    /\ acc.pkts = Len(window) + Cardinality(ThreadsAt({"check"}))
    /\ acc.bytes = SumSizes(window) + SumBuf(ThreadsAt({"check"}))
    /\ SumWindows(reports) + Len(window)
         + Cardinality(ThreadsAt({"lock", "count", "check"})) = seen.pkts

\* after a report, one thread is inside the critical section with its packet
\* counted while the other waits for the mutex with a packet of its own
C13_Witness ==
    /\ Len(reports) >= 1
    /\ \E t \in Threads, u \in Threads :
          /\ ppc[t] = "check" /\ mutex = t
          /\ ppc[u] = "lock"
          /\ pbuf[t] # pbuf[u]
    /\ seen.pkts = 3

====
